---------------------------- MODULE Spec2Model ----------------------------
(* The pygeoapi processors of src/ogc: each execute(data) reads the config,   *)
(* checks the required inputs, runs one R script in a docker container and    *)
(* answers with download links, or raises.                                    *)
(*                                                                            *)
(* Text is a sequence of tokens (TLA+ strings); concatenation, %-formatting   *)
(* and f-strings are \o.  "/" and "\n" are tokens of their own, so rstrip,    *)
(* os.path.join, split and startswith are computed, not assumed.  What a      *)
(* process writes is a sequence of byte chunks (UTF-8 codes); decode() maps   *)
(* it to text.  The byte streams of the model are UTF-8 text.                 *)
EXTENDS Integers, Sequences, FiniteSets, TLC

VARIABLES config, fs, kind, my_job_id, last_set, calls

vars == <<config, fs, kind, my_job_id, last_set, calls>>

(* ------------------------------------------------------------------------ *)
(* Bounds                                                                    *)
(* ------------------------------------------------------------------------ *)

\* most lines the container writes to standard error in one run
MaxLines == 2

(* ------------------------------------------------------------------------ *)
(* Text helpers (Python str operations)                                      *)
(* ------------------------------------------------------------------------ *)

\* s.startswith(prefix)
StartsWith(s, prefix) ==
    /\ Len(s) >= Len(prefix)
    /\ SubSeq(s, 1, Len(prefix)) = prefix

\* s.rstrip('/')
RECURSIVE RStripSlash(_)
RStripSlash(s) ==
    IF s # <<>> /\ s[Len(s)] = "/" THEN RStripSlash(SubSeq(s, 1, Len(s) - 1)) ELSE s

\* s.split('\n'): always at least one line; a trailing newline gives a last empty line
RECURSIVE SplitLines(_)
SplitLines(s) ==
    IF \E i \in 1..Len(s) : s[i] = "\n"
    THEN LET i == CHOOSE k \in 1..Len(s) :
                      s[k] = "\n" /\ \A m \in 1..(k - 1) : s[m] # "\n"
         IN  <<SubSeq(s, 1, i - 1)>> \o SplitLines(SubSeq(s, i + 1, Len(s)))
    ELSE <<s>>

\* '\n'.join(lines)
RECURSIVE JoinLines(_)
JoinLines(ls) ==
    IF Len(ls) = 0 THEN <<>>
    ELSE IF Len(ls) = 1 THEN ls[1]
    ELSE ls[1] \o <<"\n">> \o JoinLines(Tail(ls))

\* image_name.split(':')[0]
SplitColonHead(s) ==
    IF \E i \in 1..Len(s) : s[i] = ":"
    THEN LET i == CHOOSE k \in 1..Len(s) :
                      s[k] = ":" /\ \A m \in 1..(k - 1) : s[m] # ":"
         IN  SubSeq(s, 1, i - 1)
    ELSE s

\* os.path.join(a, b) for a relative b
OsPathJoin(a, b) ==
    IF a = <<>> THEN b
    ELSE IF a[Len(a)] = "/" THEN a \o b
    ELSE a \o <<"/">> \o b

\* os.sep on the Linux host the service runs on
OsSep == <<"/">>

\* the directory a path text names: its components, each the text between two
\* slashes, whatever the number of slashes
RECURSIVE Components(_)
Components(path) ==
    IF path = <<>> THEN <<>>
    ELSE IF Head(path) = "/" THEN Components(Tail(path))
    ELSE LET n == CHOOSE k \in 1..Len(path) :
                      /\ \A m \in 1..k : path[m] # "/"
                      /\ k = Len(path) \/ path[k + 1] = "/"
         IN  <<SubSeq(path, 1, n)>> \o Components(SubSeq(path, n + 1, Len(path)))

\* bytes.decode(): the text of a byte stream, chunk by chunk
Utf8Table ==
    {
      <<"Error", <<69, 114, 114, 111, 114>>>>,
      <<": ", <<58, 32>>>>,
      <<"bad input", <<98, 97, 100, 32, 105, 110, 112, 117, 116>>>>,
      <<"no such file", <<110, 111, 32, 115, 117, 99, 104, 32, 102, 105, 108, 101>>>>,
      <<"Warning: see ", <<87, 97, 114, 110, 105, 110, 103, 58, 32, 115, 101, 101, 32>>>>,
      <<"OK", <<79, 75>>>>,
      <<"\n", <<10>>>>,
      <<"sudo: docker: command not found",
        <<115, 117, 100, 111, 58, 32, 100, 111, 99, 107, 101, 114, 58, 32, 99, 111,
          109, 109, 97, 110, 100, 32, 110, 111, 116, 32, 102, 111, 117, 110, 100>>>>
    }

Decode(bytes) ==
    [i \in 1..Len(bytes) |-> (CHOOSE e \in Utf8Table : e[2] = bytes[i])[1]]

\* what a process has to write for the text to be read back
Encode(text) ==
    [i \in 1..Len(text) |-> (CHOOSE e \in Utf8Table : e[1] = text[i])[2]]


(* ------------------------------------------------------------------------ *)
(* The seven processors: what differs between the modules                    *)
(* ------------------------------------------------------------------------ *)

Procs ==
    { "clean_catchment_geometry", "combine_eurostat_data", "filter_clip_clean_extent",
      "process_create_visualizations", "process_interpolate_lau",
      "process_interpolate_subbasins", "weighting_functions" }

\* the keys execute looks up with data.get(...), in the order it checks them
InputKeys(p) ==
    CASE p = "clean_catchment_geometry"      -> <<"inputFile1_gpkg">>
      [] p = "combine_eurostat_data"         -> <<"country_code", "year">>
      [] p = "filter_clip_clean_extent"      ->
             <<"inputFile1_gpkg", "inputFile2_gpkg", "inputFile3_gpkg">>
      [] p = "process_create_visualizations" ->
             <<"inputFile1_rds", "inputFile2_gpkg", "inputFile3_gpkg">>
      [] p = "process_interpolate_lau"       -> <<"inputFile1_gpkg", "inputFile2_gpkg">>
      [] p = "process_interpolate_subbasins" -> <<"inputFile1_gpkg", "inputFile2_gpkg">>
      [] p = "weighting_functions"           ->
             <<"inputFile1_tif", "inputFile2_gpkg", "inputFile3_dbf">>

\* the parameter each "is None" check names in its message, in the same order
MissingNames(p) ==
    CASE p = "clean_catchment_geometry"      -> <<"inputFile1_gpkg">>
      [] p = "combine_eurostat_data"         -> <<"inputFile_tif", "year">>
      [] p = "filter_clip_clean_extent"      ->
             <<"inputFile1_gpkg", "inputFile2_gpkg", "inputFile3_gpkg">>
      [] p = "process_create_visualizations" ->
             <<"inputFile1_rds", "inputFile2_gpkg", "inputFile3_gpkg">>
      [] p = "process_interpolate_lau"       -> <<"inputFile1_gpkg", "inputFile2_gpkg">>
      [] p = "process_interpolate_subbasins" -> <<"inputFile1_gpkg", "inputFile2_gpkg">>
      [] p = "weighting_functions"           ->
             <<"inputFile1_tif", "inputFile2_gpkg", "inputFile3_dbf">>

\* ProcessorExecuteError('Missing parameter "X". Please provide a X.')
MissingMessage(name) ==
    <<"Missing parameter \"", name, "\". Please provide a ", name, ".">>

\* the patterns '<stem>-%s<ext>' of the download file names, in argument order
OutputPatterns(p) ==
    CASE p = "clean_catchment_geometry"      -> << <<"catchment_cleaned", ".gpkg">> >>
      [] p = "combine_eurostat_data"         -> << <<"nuts3_pop_data", ".gpkg">> >>
      [] p = "filter_clip_clean_extent"      ->
             << <<"nuts3_filtered", ".gpkg">>, <<"lau_processed", ".gpkg">>,
                <<"analysis_extent", ".gpkg">> >>
      [] p = "process_create_visualizations" ->
             << <<"visual_weight_table", ".csv">>, <<"visual_lau_error_map", ".html">>,
                <<"visual_subbasin_density_map", ".html">> >>
      [] p = "process_interpolate_lau"       -> << <<"lau_population_errors", ".gpkg">> >>
      [] p = "process_interpolate_subbasins" ->
             << <<"subbasin_population_density", ".gpkg">> >>
      [] p = "weighting_functions"           ->
             << <<"weight_table", ".csv">>, <<"weight_table", ".rds">> >>

\* the keys of response_object["outputs"], in the order of the file names
OutputIds(p) ==
    CASE p = "clean_catchment_geometry"      -> <<"catchment_cleaned">>
      [] p = "combine_eurostat_data"         -> <<"nuts3_pop_data">>
      [] p = "filter_clip_clean_extent"      ->
             <<"nuts3_filtered", "lau_processed", "analysis_extent">>
      [] p = "process_create_visualizations" ->
             <<"visual_weight_table", "visual_lau_error_map",
               "visual_subbasin_density_map">>
      [] p = "process_interpolate_lau"       -> <<"lau_population_errors">>
      [] p = "process_interpolate_subbasins" -> <<"subbasin_population_density">>
      [] p = "weighting_functions"           -> <<"weight_table_csv", "weight_table_rds">>

\* the script named in R_SCRIPT
ScriptName(p) == <<p, ".R">>

\* image_name
ImageName(p) ==
    IF p \in {"combine_eurostat_data", "process_interpolate_lau"}
    THEN <<"aquainfra-elbe-usecase-image", ":", "20251119">>
    ELSE <<"aquainfra-elbe-usecase-image">>

\* the modules whose docker_command starts with "sudo"
UsesSudo(p) ==
    p \in { "clean_catchment_geometry", "filter_clip_clean_extent",
            "process_interpolate_subbasins", "weighting_functions" }

\* the modules that give each job a directory out/<process id>/job_<job id>
HasJobDir(p) == p \in {"combine_eurostat_data", "process_interpolate_lau"}

\* the module that calls docker_utils.run_docker_container instead of its own
UsesDockerUtils(p) == p = "process_interpolate_lau"

\* self.metadata["id"], from the module's .json
ProcessId(p) ==
    IF p = "combine_eurostat_data" THEN "combine-eurostat-data"
    ELSE "process-interpolate-lau"

\* the value the request gives for an input key (one distinct value per key)
InputValue(key) == <<key, "=value">>

\* a file name that never takes the job id of the instance
DownloadFileName_Initial(pattern, job_id) ==
    <<pattern[1], "-", "nothing-yet", pattern[2]>>

\* '<stem>-%s<ext>' % self.my_job_id
DownloadFileName(pattern, job_id) == <<pattern[1], "-", job_id, pattern[2]>>


(* ------------------------------------------------------------------------ *)
(* The container run: names, directories, command line, outcome              *)
(* ------------------------------------------------------------------------ *)

\* container_out
ContainerOut == <<"/", "out">>

\* the directory is never created
Makedirs_Skipped(dirs, path) == dirs

\* os.makedirs(path, ...): the directory and its parents
Makedirs(dirs, path) ==
    dirs \cup { SubSeq(Components(path), 1, k) : k \in 1..Len(Components(path)) }

\* the keyword argument exist_ok=True of every os.makedirs call
ExistOk == TRUE

\* os.makedirs raises FileExistsError for an existing directory unless exist_ok
MakedirsRaises(dirs, path) == ~ExistOk /\ Components(path) \in dirs

\* os.urandom(5).hex(): any ten hex digits (two of them stand for all)
HexSuffixes == {"00a1b2c3d4", "ffe9d8c7b6"}

\* container_name: the image name up to its tag, "_", the random suffix
ContainerName(p, hex) ==
    IF HasJobDir(p)
    THEN SplitColonHead(ImageName(p)) \o <<"_", hex>>
    ELSE <<"aquainfra-elbe-usecase-image", "_", hex>>

\* the output directory of the job, host side: output_dir, or local_out of the
\* modules that share download_dir/out
OutputDir(p, download_dir, job_id) ==
    IF HasJobDir(p)
    THEN RStripSlash(download_dir) \o <<"/", "out", "/", ProcessId(p), "/", "job_", job_id>>
    ELSE OsPathJoin(download_dir, <<"out">>)

\* output_url of the modules with a job directory, own_url of the others
OutputUrl(p, cfg, job_id) ==
    IF HasJobDir(p)
    THEN RStripSlash(cfg.download_url)
             \o <<"/", "out", "/", ProcessId(p), "/", "job_", job_id>>
    ELSE cfg.own_url

\* the output arguments: "/out/<file>" in run_docker_container, downloadfilepath
\* (output_dir/<file>) in the script_args of process_interpolate_lau
OutputArgs(p, output_dir, files) ==
    [k \in 1..Len(files) |->
        IF UsesDockerUtils(p)
        THEN output_dir \o <<"/">> \o files[k]
        ELSE ContainerOut \o <<"/">> \o files[k]]

\* the command line with the output files ahead of the inputs
ScriptArgs_OutputsFirst(p, output_dir, files) ==
    OutputArgs(p, output_dir, files)
        \o [k \in 1..Len(InputKeys(p)) |-> InputValue(InputKeys(p)[k])]

\* the arguments after the image: the inputs in the order of the signature, then
\* the output files
ScriptArgs(p, output_dir, files) ==
    [k \in 1..Len(InputKeys(p)) |-> InputValue(InputKeys(p)[k])]
        \o OutputArgs(p, output_dir, files)

\* docker_command
DockerCommand(p, executable, container_name, local_out, args) ==
    (IF UsesSudo(p) THEN << <<"sudo">> >> ELSE <<>>)
        \o << executable, <<"run">>, <<"--rm">>, <<"--name">>, container_name,
              <<"-v">>, local_out \o <<":">> \o ContainerOut,
              <<"-e">>, <<"R_SCRIPT=">> \o ScriptName(p),
              ImageName(p) >>
        \o args

\* subprocess.run(..., check=True, stdout=PIPE, stderr=PIPE) once the process has
\* exited: a CompletedProcess, or CalledProcessError for a non-zero exit
SubprocessRun(outcome) ==
    [raised |-> outcome.code # 0, returncode |-> outcome.code,
     stdout |-> outcome.out, stderr |-> outcome.err]

\* docker_utils: the first line of stderr that starts with "Error", without the
\* marker "Error: "; empty when there is none
RECURSIVE FirstErrorLine(_)
FirstErrorLine(lines) ==
    IF lines = <<>> THEN <<>>
    ELSE IF StartsWith(Head(lines), <<"Error">>) THEN Head(lines)
    ELSE FirstErrorLine(Tail(lines))

DockerUtilsUserMessage(stderr) ==
    LET line == FirstErrorLine(SplitLines(stderr))
    IN  IF StartsWith(line, <<"Error", ": ">>) THEN SubSeq(line, 3, Len(line))
        ELSE IF StartsWith(line, <<"Error">>) THEN Tail(line)
        ELSE <<>>

\* run_docker_container without its except clause: CalledProcessError escapes
RunDockerContainer_Unhandled(p, completed) ==
    [kind |-> IF completed.raised THEN "CalledProcessError" ELSE "return",
     returncode |-> completed.returncode,
     stdout |-> Decode(completed.stdout),
     stderr |-> Decode(completed.stderr),
     user_err_msg |-> <<>>]

\* the try/except around subprocess.run: both branches return the decoded triple
\* (docker_utils adds the extracted message)
RunDockerContainer(p, completed) ==
    [kind |-> "return",
     returncode |-> completed.returncode,
     stdout |-> Decode(completed.stdout),
     stderr |-> Decode(completed.stderr),
     user_err_msg |-> IF UsesDockerUtils(p) /\ completed.returncode # 0
                      THEN DockerUtilsUserMessage(Decode(completed.stderr))
                      ELSE <<>>]

\* the loop with "'Error' in line" for line.startswith('Error')
RECURSIVE ScanErrorLines_Contains(_, _)
ScanErrorLines_Contains(lines, err_msg) ==
    IF lines = <<>> THEN err_msg
    ELSE ScanErrorLines_Contains(Tail(lines),
                        IF \E k \in 1..Len(Head(lines)) : Head(lines)[k] = "Error"
                        THEN <<"Running docker container failed: ">> \o Head(lines)
                        ELSE err_msg)

\* the loop over stderr.split('\n') in execute
RECURSIVE ScanErrorLines(_, _)
ScanErrorLines(lines, err_msg) ==
    IF lines = <<>> THEN err_msg
    ELSE ScanErrorLines(Tail(lines),
                        IF StartsWith(Head(lines), <<"Error">>)
                        THEN <<"Running docker container failed: ">> \o Head(lines)
                        ELSE err_msg)

\* err_msg of the ProcessorExecuteError raised for a non-zero return code
FailureMessage(p, ret) ==
    IF UsesDockerUtils(p)
    THEN <<"Running docker container failed: ">>
             \o (IF Len(ret.user_err_msg) = 0 THEN <<"no message">> ELSE ret.user_err_msg)
    ELSE ScanErrorLines(SplitLines(ret.stderr), <<"Running docker container failed.">>)

\* downloadlink without rstrip('/')
DownloadLink_NoStrip(p, url, file) == url \o OsSep \o file

\* downloadlink of one file
DownloadLink(p, url, file) ==
    IF UsesDockerUtils(p) THEN url \o <<"/">> \o file
    ELSE RStripSlash(url) \o OsSep \o file

\* response_object["outputs"]: output id and href, one per file
Response(p, url, files) ==
    [k \in 1..Len(files) |-> [id |-> OutputIds(p)[k], href |-> DownloadLink(p, url, files[k])]]

\* what sudo does when it cannot find the command it is to run
SudoCommandNotFound ==
    [code |-> 1, out |-> <<>>, err |-> Encode(<<"sudo: docker: command not found", "\n">>)]


(* ------------------------------------------------------------------------ *)
(* State                                                                     *)
(* ------------------------------------------------------------------------ *)
(* config    : the JSON config file, read by every execute                   *)
(* fs        : the directories that exist on the host                        *)
(* kind      : the processor instances and the module each is an instance of *)
(* my_job_id : self.my_job_id of each instance                               *)
(* last_set  : the job id of the latest set_job_id call on each instance,    *)
(*             "none" as long as there was no such call                      *)
(* calls     : the execute calls, one record per calling thread; created is  *)
(*             the set of directories the call has made so far               *)

\* the job ids the framework hands to set_job_id
JobIds == {"job-1", "job-2"}

\* the config files the service is deployed with: with and without the
\* trailing "/" that rstrip('/') removes
Configs ==
    { [download_dir |-> <<"/", "srv", "/", "downloads">>,
       own_url |-> <<"https://host", "/", "download">>,
       download_url |-> <<"https://host", "/", "download">>,
       docker_executable |-> <<"docker">>],
      [download_dir |-> <<"/", "srv", "/", "downloads", "/">>,
       own_url |-> <<"https://host", "/", "download", "/">>,
       download_url |-> <<"https://host", "/", "download", "/">>,
       docker_executable |-> <<"docker">>] }

\* the lines the script writes to standard error
ErrLines ==
    { <<>>,
      <<"Error", ": ", "bad input">>,
      <<"Error", ": ", "no such file">>,
      <<"Warning: see ", "Error">> }

\* standard error streams of at most MaxLines lines
StderrTexts ==
    { JoinLines(ls) : ls \in UNION { [1..n -> ErrLines] : n \in 1..MaxLines } }

ExitCodes == {0, 1, 2}

\* every outcome of the process: exit code and the bytes written
Outcomes ==
    [code : ExitCodes,
     out : {<<>>, Encode(<<"OK">>)},
     err : {Encode(t) : t \in StderrTexts}]

NoOutcome == [code |-> -1, out |-> <<>>, err |-> <<>>]

NoReturn ==
    [kind |-> "none", returncode |-> -1, stdout |-> <<>>, stderr |-> <<>>,
     user_err_msg |-> <<>>]

NoExc == [type |-> "none", msg |-> <<>>]

\* a thread that is not inside execute
IdleCall ==
    [pc |-> "idle", inst |-> "none", data |-> {}, job_dir_id |-> "", job_id |-> "",
     output_dir |-> <<>>, url |-> <<>>, files |-> <<>>, container_name |-> <<>>,
     local_out |-> <<>>, docker_command |-> <<>>, engine_ok |-> TRUE, launches |-> 0,
     created |-> {}, proc |-> NoOutcome, ret |-> NoReturn, exc |-> NoExc,
     mimetype |-> "", response |-> <<>>, trace |-> <<>>]

Threads == DOMAIN calls
Instances == DOMAIN kind
ProcOf(c) == IF calls[c].inst \in Instances THEN kind[calls[c].inst] ELSE "none"

\* execute is over: it returned or raised
Finished(c) == calls[c].pc \in {"done", "raised"}

InitCommon ==
    /\ config \in Configs
    /\ fs \in {{}, Makedirs({}, config.download_dir)}

\* one processor instance, one calling thread, every outcome of the script
Init ==
    /\ kind \in [{"p"} -> Procs]
    /\ my_job_id = [i \in {"p"} |-> "nothing-yet"]
    /\ last_set = [i \in {"p"} |-> "none"]
    /\ calls = [c \in {"t1"} |-> IdleCall]
    /\ InitCommon

(* ------------------------------------------------------------------------ *)
(* Operations                                                                *)
(* ------------------------------------------------------------------------ *)

\* thread c, not inside execute, calls set_job_id(job_id) on instance i; what it
\* kept of its last execute call is gone
SetJobId(c, i, j) ==
    /\ calls[c].pc = "idle" \/ Finished(c)
    /\ my_job_id' = [my_job_id EXCEPT ![i] = j]
    /\ last_set' = [last_set EXCEPT ![i] = j]
    /\ calls' = [calls EXCEPT ![c] = IdleCall]
    /\ UNCHANGED <<config, fs, kind>>

\* execute(data) is entered on instance i and reads the config file
ReadConfig(c, i, d) ==
    /\ calls[c].pc = "idle" \/ Finished(c)
    /\ calls' = [calls EXCEPT ![c] =
                    [IdleCall EXCEPT !.pc = "config_read", !.inst = i, !.data = d,
                                     !.trace = <<"config">>]]
    /\ UNCHANGED <<config, fs, kind, my_job_id, last_set>>

\* combine_eurostat_data, process_interpolate_lau: output_dir, output_url and
\* os.makedirs(output_dir, exist_ok=True), before the inputs are looked at
MakeOutputDir(c) ==
    /\ calls[c].pc = "config_read"
    /\ HasJobDir(ProcOf(c))
    /\ LET p == ProcOf(c)
           id == my_job_id[calls[c].inst]
           dir == OutputDir(p, config.download_dir, id)
           exists == MakedirsRaises(fs, dir)
       IN  /\ fs' = IF exists THEN fs ELSE Makedirs(fs, dir)
           /\ calls' = [calls EXCEPT
                ![c].pc = IF exists THEN "raised" ELSE "dir_made",
                ![c].exc = IF exists THEN [type |-> "FileExistsError", msg |-> <<>>]
                           ELSE NoExc,
                ![c].job_dir_id = id,
                ![c].output_dir = dir,
                ![c].created = IF exists THEN {} ELSE Makedirs(fs, dir) \ fs,
                ![c].url = OutputUrl(p, config, id),
                ![c].trace = @ \o <<IF exists THEN "raise" ELSE "makedirs">>]
    /\ UNCHANGED <<config, kind, my_job_id, last_set>>

\* the index of the first input that data.get finds absent, 0 when none is
FirstMissing(p, d) ==
    IF \A k \in 1..Len(InputKeys(p)) : InputKeys(p)[k] \in d THEN 0
    ELSE CHOOSE k \in 1..Len(InputKeys(p)) :
             /\ InputKeys(p)[k] \notin d
             /\ \A m \in 1..(k - 1) : InputKeys(p)[m] \in d

\* execute without the 'is None' checks: it goes on whatever the request holds
CheckInputs_Skipped(c) ==
    /\ calls[c].pc = IF HasJobDir(ProcOf(c)) THEN "dir_made" ELSE "config_read"
    /\ calls' = [calls EXCEPT ![c].pc = "inputs_ok", ![c].trace = @ \o <<"inputs">>]
    /\ UNCHANGED <<config, fs, kind, my_job_id, last_set>>

\* "Check user inputs": the first absent input raises ProcessorExecuteError
CheckInputs(c) ==
    /\ calls[c].pc = IF HasJobDir(ProcOf(c)) THEN "dir_made" ELSE "config_read"
    /\ LET p == ProcOf(c)
           k == FirstMissing(p, calls[c].data)
       IN  calls' = [calls EXCEPT
                ![c].pc = IF k = 0 THEN "inputs_ok" ELSE "raised",
                ![c].exc = IF k = 0 THEN NoExc
                           ELSE [type |-> "ProcessorExecuteError",
                                 msg |-> MissingMessage(MissingNames(p)[k])],
                ![c].trace = @ \o <<IF k = 0 THEN "inputs" ELSE "raise">>]
    /\ UNCHANGED <<config, fs, kind, my_job_id, last_set>>

\* the download file names, then run_docker_container up to subprocess.run:
\* container name, mount directory (created by the modules that share
\* download_dir/out, and by docker_utils), command line
Prepare(c, hex) ==
    /\ calls[c].pc = "inputs_ok"
    /\ LET p == ProcOf(c)
           id == my_job_id[calls[c].inst]
           files == [k \in 1..Len(OutputPatterns(p)) |->
                        DownloadFileName(OutputPatterns(p)[k], id)]
           local_out == IF HasJobDir(p) THEN calls[c].output_dir
                        ELSE OutputDir(p, config.download_dir, id)
           url == IF HasJobDir(p) THEN calls[c].url ELSE OutputUrl(p, config, id)
           name == ContainerName(p, hex)
           exe == IF UsesDockerUtils(p) THEN config.docker_executable ELSE <<"docker">>
           makes == p # "combine_eurostat_data"
           exists == makes /\ MakedirsRaises(fs, local_out)
       IN  /\ fs' = IF makes /\ ~exists THEN Makedirs(fs, local_out) ELSE fs
           /\ calls' = [calls EXCEPT
                ![c].pc = IF exists THEN "raised" ELSE "prepared",
                ![c].exc = IF exists THEN [type |-> "FileExistsError", msg |-> <<>>]
                           ELSE NoExc,
                ![c].job_id = id,
                ![c].files = files,
                ![c].url = url,
                ![c].container_name = name,
                ![c].local_out = local_out,
                ![c].created = IF makes /\ ~exists THEN @ \cup (Makedirs(fs, local_out) \ fs)
                               ELSE @,
                ![c].docker_command =
                    DockerCommand(p, exe, name, local_out,
                                  ScriptArgs(p, calls[c].output_dir, files)),
                ![c].trace = @ \o <<IF exists THEN "raise" ELSE "prepare">>]
    /\ UNCHANGED <<config, kind, my_job_id, last_set>>

\* subprocess.run starts docker_command[0]: OSError (FileNotFoundError,
\* PermissionError) when that executable cannot be started
Launch(c, sudo_ok, docker_ok) ==
    /\ calls[c].pc = "prepared"
    /\ LET argv0 == Head(calls[c].docker_command)
           started == IF argv0 = <<"sudo">> THEN sudo_ok ELSE docker_ok
       IN  calls' = [calls EXCEPT
                ![c].pc = IF started THEN "running" ELSE "raised",
                ![c].engine_ok = docker_ok,
                ![c].launches = IF started THEN @ + 1 ELSE @,
                ![c].exc = IF started THEN NoExc ELSE [type |-> "OSError", msg |-> <<>>],
                ![c].trace = @ \o <<IF started THEN "launch" ELSE "raise">>]
    /\ UNCHANGED <<config, fs, kind, my_job_id, last_set>>

\* how the process subprocess.run started can end: sudo without docker fails,
\* everything else ends as the script in the image does
ExitOutcomes(c) ==
    IF UsesSudo(ProcOf(c)) /\ ~calls[c].engine_ok
    THEN {SudoCommandNotFound} ELSE Outcomes

\* the process exits and run_docker_container hands its outcome to execute
Exit(c, o) ==
    /\ calls[c].pc = "running"
    /\ o \in ExitOutcomes(c)
    /\ LET r == RunDockerContainer(ProcOf(c), SubprocessRun(o))
       IN  calls' = [calls EXCEPT
                ![c].pc = IF r.kind = "return" THEN "returned" ELSE "raised",
                ![c].proc = o,
                ![c].ret = IF r.kind = "return" THEN r ELSE NoReturn,
                ![c].exc = IF r.kind = "return" THEN NoExc
                           ELSE [type |-> r.kind, msg |-> <<>>],
                ![c].trace = @ \o <<IF r.kind = "return" THEN "exit" ELSE "raise">>]
    /\ UNCHANGED <<config, fs, kind, my_job_id, last_set>>

\* execute with a retry: a failed run is started once more before it is reported
Finish_Retry(c) ==
    /\ calls[c].pc = "returned"
    /\ LET p == ProcOf(c)
           ok == calls[c].ret.returncode = 0
           again == ~ok /\ calls[c].launches < 2
       IN  calls' = [calls EXCEPT
                ![c].pc = IF ok THEN "done" ELSE IF again THEN "prepared" ELSE "raised",
                ![c].exc = IF ok \/ again THEN NoExc
                           ELSE [type |-> "ProcessorExecuteError",
                                 msg |-> FailureMessage(p, calls[c].ret)],
                ![c].mimetype = IF ok THEN "application/json" ELSE "",
                ![c].response = IF ok THEN Response(p, calls[c].url, calls[c].files)
                                ELSE <<>>,
                ![c].trace = @ \o <<IF ok THEN "response" ELSE IF again THEN "retry"
                                    ELSE "raise">>]
    /\ UNCHANGED <<config, fs, kind, my_job_id, last_set>>

\* "if not returncode == 0": raise with the message, else return
\* 'application/json' and the response object with the links
Finish(c) ==
    /\ calls[c].pc = "returned"
    /\ LET p == ProcOf(c)
           ok == calls[c].ret.returncode = 0
       IN  calls' = [calls EXCEPT
                ![c].pc = IF ok THEN "done" ELSE "raised",
                ![c].exc = IF ok THEN NoExc
                           ELSE [type |-> "ProcessorExecuteError",
                                 msg |-> FailureMessage(p, calls[c].ret)],
                ![c].mimetype = IF ok THEN "application/json" ELSE "",
                ![c].response = IF ok THEN Response(p, calls[c].url, calls[c].files)
                                ELSE <<>>,
                ![c].trace = @ \o <<IF ok THEN "response" ELSE "raise">>]
    /\ UNCHANGED <<config, fs, kind, my_job_id, last_set>>

Next ==
    \/ \E c \in Threads, i \in Instances, j \in JobIds : SetJobId(c, i, j)
    \/ \E c \in Threads, i \in Instances :
          \E d \in SUBSET {InputKeys(kind[i])[k] : k \in 1..Len(InputKeys(kind[i]))} :
              ReadConfig(c, i, d)
    \/ \E c \in Threads : MakeOutputDir(c)
    \/ \E c \in Threads : CheckInputs(c)
    \/ \E c \in Threads, hex \in HexSuffixes : Prepare(c, hex)
    \/ \E c \in Threads, sudo_ok \in BOOLEAN, docker_ok \in BOOLEAN :
          Launch(c, sudo_ok, docker_ok)
    \/ \E c \in Threads : calls[c].pc = "running" /\ \E o \in ExitOutcomes(c) : Exit(c, o)
    \/ \E c \in Threads : Finish(c)

Spec == Init /\ [][Next]_vars

\* the inputs a request gives when none is missing
AllInputs(p) == {InputKeys(p)[k] : k \in 1..Len(InputKeys(p))}

\* a script that writes nothing and exits with 0
QuietOutcomes == {o \in Outcomes : o.code = 0 /\ o.out = <<>> /\ o.err = <<>>}

\* the modules in a fixed order: instances "p" and "q" are interchangeable, so
\* one order of each pair of modules is enough
ProcOrder ==
    << "clean_catchment_geometry", "combine_eurostat_data", "filter_clip_clean_extent",
       "process_create_visualizations", "process_interpolate_lau",
       "process_interpolate_subbasins", "weighting_functions" >>

ProcIndex(p) == CHOOSE k \in 1..Len(ProcOrder) : ProcOrder[k] = p

\* two requests served at the same time: each thread makes one execute call, on
\* one processor instance or on two, after any set_job_id calls; complete
\* requests, docker present, a quiet script
InitConc ==
    /\ kind \in {f \in [{"p", "q"} -> Procs] : ProcIndex(f["p"]) <= ProcIndex(f["q"])}
    /\ my_job_id = [i \in {"p", "q"} |-> "nothing-yet"]
    /\ last_set = [i \in {"p", "q"} |-> "none"]
    /\ calls = [c \in {"t1", "t2"} |-> IdleCall]
    /\ config = CHOOSE cfg \in Configs : cfg.download_dir = RStripSlash(cfg.download_dir)
    /\ fs = {}

NextConc ==
    \/ \E c \in Threads, i \in Instances, j \in JobIds :
          calls[c].pc = "idle" /\ SetJobId(c, i, j)
    \/ \E c \in Threads, i \in Instances :
          calls[c].pc = "idle" /\ ReadConfig(c, i, AllInputs(kind[i]))
    \/ \E c \in Threads : MakeOutputDir(c)
    \/ \E c \in Threads : CheckInputs(c)
    \/ \E c \in Threads, hex \in HexSuffixes : Prepare(c, hex)
    \/ \E c \in Threads : Launch(c, TRUE, TRUE)
    \/ \E c \in Threads, o \in QuietOutcomes : Exit(c, o)
    \/ \E c \in Threads : Finish(c)

SpecConc == InitConc /\ [][NextConc]_vars


(* ------------------------------------------------------------------------ *)
(* Claims                                                                    *)
(* ------------------------------------------------------------------------ *)

\* the process of thread c's call has exited
Exited(c) == calls[c].proc # NoOutcome

\* execute raised the ProcessorExecuteError of a non-zero return code
ScriptFailureRaised(c) ==
    /\ calls[c].pc = "raised"
    /\ calls[c].exc.type = "ProcessorExecuteError"
    /\ calls[c].ret.kind = "return"
    /\ calls[c].ret.returncode # 0

\* the lines of the standard error that run_docker_container returned
StderrLines(c) == SplitLines(calls[c].ret.stderr)

\* the positions of the lines that begin with "Error"
ErrorLineIndexes(c) ==
    {k \in 1..Len(StderrLines(c)) : StartsWith(StderrLines(c)[k], <<"Error">>)}

C2_MessageFromFirstErrorLine ==
    \A c \in Threads :
        ( /\ ScriptFailureRaised(c)
          /\ ~UsesDockerUtils(ProcOf(c))
          /\ Cardinality(ErrorLineIndexes(c)) >= 2 )
        => LET first == CHOOSE k \in ErrorLineIndexes(c) :
                            \A m \in ErrorLineIndexes(c) : k <= m
               line == StderrLines(c)[first]
           IN  calls[c].exc.msg \in
                   { <<"Running docker container failed: ">> \o line,
                     <<"Running docker container failed: ">> \o SubSeq(line, 3, Len(line)) }

\* C3: when a required input is absent, execute raises ProcessorExecuteError and
\* the message names the key that was looked up and found absent.
C3_MissingInputIsNamed ==
    \A c \in Threads :
        (Finished(c) /\ FirstMissing(ProcOf(c), calls[c].data) # 0)
        => /\ calls[c].exc.type = "ProcessorExecuteError"
           /\ calls[c].exc.msg =
                  MissingMessage(InputKeys(ProcOf(c))[FirstMissing(ProcOf(c), calls[c].data)])

\* C4: when the docker executable cannot be started, run_docker_container returns
\* no triple and execute does not raise the ProcessorExecuteError of a failed
\* script: another exception reaches the caller.
C4_LaunchFailureIsDistinct ==
    \A c \in Threads :
        (Finished(c) /\ ~calls[c].engine_ok)
        => /\ calls[c].ret = NoReturn
           /\ calls[c].exc.type \notin {"none", "ProcessorExecuteError"}

\* execute is running in thread c and has named its output files
InsideWithOutputs(c) == calls[c].pc \in {"prepared", "running", "returned"}

\* the output arguments of the command line: its last arguments, one per file
CommandOutputArgs(c) ==
    LET cmd == calls[c].docker_command
        n == Len(calls[c].files)
    IN  {cmd[k] : k \in (Len(cmd) - n + 1)..Len(cmd)}

\* the -v argument's host side: the directory mounted at /out
MountSource(c) ==
    LET cmd == calls[c].docker_command
        k == CHOOSE m \in 1..Len(cmd) : cmd[m] = <<"-v">>
    IN  SplitColonHead(cmd[k + 1])

\* where the container of thread c writes its outputs: a path under /out is the
\* host file under the mounted directory, any other path is a file of that
\* container's own file system
OutputLocations(c) ==
    { IF StartsWith(a, ContainerOut \o <<"/">>)
      THEN [owner |-> "host",
            path |-> Components(MountSource(c)) \o Components(SubSeq(a, 3, Len(a)))]
      ELSE [owner |-> c, path |-> Components(a)]
      : a \in CommandOutputArgs(c) }

\* C5: two execute calls that overlap never have an output path in common.
C5_OutputPathsDisjoint ==
    \A c1, c2 \in Threads :
        (c1 # c2 /\ InsideWithOutputs(c1) /\ InsideWithOutputs(c2))
        => OutputLocations(c1) \cap OutputLocations(c2) = {}

\* C6: two invocations of run_docker_container never generate the same
\* container name.
C6_ContainerNamesUnique ==
    \A c1, c2 \in Threads :
        (c1 # c2 /\ calls[c1].container_name # <<>> /\ calls[c2].container_name # <<>>)
        => calls[c1].container_name # calls[c2].container_name

\* C7: when execute has returned its response, or has raised because the script
\* exited non-zero, the host directory mounted into the container exists; an
\* execute call with all inputs ends in no other way than the response, that
\* error or the launch error (creating the directory raises nothing).
C7_OutputDirExists ==
    \A c \in Threads :
        /\ (calls[c].pc = "done" \/ ScriptFailureRaised(c))
               => Components(MountSource(c)) \in fs
        /\ (Finished(c) /\ FirstMissing(ProcOf(c), calls[c].data) = 0)
               => calls[c].exc.type \in {"none", "ProcessorExecuteError", "OSError"}

\* the script failed and the mounted directory, with its parents, is there
C7_Witness ==
    \E c \in Threads :
        /\ ScriptFailureRaised(c)
        /\ Components(MountSource(c)) \in fs
        /\ << <<"srv">> >> \in fs

\* C8: every output file argument of the command line is rooted at /out.
C8_OutputArgsUnderMount ==
    \A c \in Threads :
        calls[c].docker_command # <<>>
        => \A a \in CommandOutputArgs(c) : StartsWith(a, ContainerOut \o <<"/">>)

\* C9: a non-zero exit with the single line "Error: <text>" on stderr raises
\* ProcessorExecuteError with the message "Running docker container failed: <text>".
C9_MessageIsMarkedText ==
    \A c \in Threads :
        ( /\ ScriptFailureRaised(c)
          /\ \E t \in {"bad input", "no such file"} :
                calls[c].ret.stderr \in { <<"Error", ": ", t>>, <<"Error", ": ", t, "\n">> } )
        => calls[c].exc.msg = <<"Running docker container failed: ", calls[c].ret.stderr[3]>>

\* C10: a non-zero exit with no line of stderr beginning with "Error" ends in
\* ProcessorExecuteError with the fixed fallback text of the module.
C10_FallbackMessage ==
    \A c \in Threads :
        ( /\ Finished(c)
          /\ calls[c].ret.kind = "return"
          /\ calls[c].ret.returncode # 0
          /\ ErrorLineIndexes(c) = {} )
        => /\ calls[c].exc.type = "ProcessorExecuteError"
           /\ calls[c].exc.msg =
                  IF UsesDockerUtils(ProcOf(c))
                  THEN <<"Running docker container failed: ", "no message">>
                  ELSE <<"Running docker container failed.">>

\* a failed script whose stderr mentions "Error" only inside a line
C10_Witness ==
    \E c \in Threads :
        /\ ScriptFailureRaised(c)
        /\ ErrorLineIndexes(c) = {}
        /\ \E k \in 1..Len(StderrLines(c)) :
               StderrLines(c)[k] = <<"Warning: see ", "Error">>

\* text b ends with text a
EndsWith(b, a) ==
    /\ Len(a) <= Len(b)
    /\ SubSeq(b, Len(b) - Len(a) + 1, Len(b)) = a

\* the position of "run" in the command line of thread c
RunIndex(c) ==
    CHOOSE k \in 1..Len(calls[c].docker_command) : calls[c].docker_command[k] = <<"run">>

\* C11: the command line is the engine executable (behind "sudo" or not), then
\* run, --rm, --name and the generated container name, one -v with
\* <host output directory>:/out, one -e with R_SCRIPT=<script>, the image, then
\* the input values in the order of the call and the output files in the order
\* of the call, and nothing after the last of them.
C11_CommandLayout ==
    \A c \in Threads :
        calls[c].docker_command # <<>>
        => LET p == ProcOf(c)
               cmd == calls[c].docker_command
               r == RunIndex(c)
               ins == InputKeys(p)
               files == calls[c].files
           IN  /\ r \in {2, 3}
               /\ cmd[r - 1] = <<"docker">>
               /\ r = 3 => cmd[1] = <<"sudo">>
               /\ cmd[r + 1] = <<"--rm">>
               /\ cmd[r + 2] = <<"--name">>
               /\ cmd[r + 3] = calls[c].container_name
               /\ cmd[r + 4] = <<"-v">>
               /\ cmd[r + 5] = calls[c].local_out \o <<":", "/", "out">>
               /\ cmd[r + 6] = <<"-e">>
               /\ cmd[r + 7] = <<"R_SCRIPT=">> \o ScriptName(p)
               /\ cmd[r + 8] = ImageName(p)
               /\ Cardinality({k \in 1..Len(cmd) : cmd[k] \in {<<"-v">>, <<"-e">>}}) = 2
               /\ Len(cmd) = r + 8 + Len(ins) + Len(files)
               /\ \A k \in 1..Len(ins) : cmd[r + 8 + k] = InputValue(ins[k])
               /\ \A k \in 1..Len(files) :
                      EndsWith(cmd[r + 8 + Len(ins) + k], <<"/">> \o files[k])

\* a command line behind sudo with three inputs and three output files
C11_Witness ==
    \E c \in Threads :
        /\ calls[c].pc = "running"
        /\ Head(calls[c].docker_command) = <<"sudo">>
        /\ Len(InputKeys(ProcOf(c))) = 3
        /\ Len(calls[c].files) = 3
        /\ Len(calls[c].docker_command) = 17

\* the URL the links of thread c's call start from: own_url of the config, or the
\* URL of the job directory under download_url
LinkBase(c) ==
    IF HasJobDir(ProcOf(c))
    THEN RStripSlash(config.download_url)
             \o <<"/", "out", "/", ProcessId(ProcOf(c)), "/", "job_", calls[c].job_id>>
    ELSE config.own_url

\* the k-th output file argument of the command line
CommandOutputArg(c, k) ==
    LET cmd == calls[c].docker_command
    IN  cmd[Len(cmd) - Len(calls[c].files) + k]

\* the file name of the k-th output argument: what follows its last "/"
OutputFileName(c, k) ==
    LET arg == CommandOutputArg(c, k)
        slash == CHOOSE n \in 1..Len(arg) :
                     /\ arg[n] = "/"
                     /\ \A m \in (n + 1)..Len(arg) : arg[m] # "/"
    IN  SubSeq(arg, slash + 1, Len(arg))

StepsAt(c, steps) == {k \in 1..Len(calls[c].trace) : calls[c].trace[k] \in steps}

\* C13: within one execute call the subprocess is started at most once and
\* exits at most once, it is not started after it has exited, the call reports
\* (returns the response or raises) at most once and does nothing after that,
\* and a call that started the subprocess reports only after the exit; a
\* non-zero exit ends in that one report.
C13_NoRetry ==
    \A c \in Threads :
        LET starts == StepsAt(c, {"launch"})
            exits == StepsAt(c, {"exit"})
            reports == StepsAt(c, {"response", "raise"})
        IN  /\ Cardinality(starts) <= 1
            /\ calls[c].launches = Cardinality(starts)
            /\ Cardinality(exits) <= Cardinality(starts)
            /\ \A s \in starts, e \in exits : s < e
            /\ Cardinality(reports) <= 1
            /\ \A r \in reports : r = Len(calls[c].trace) /\ Finished(c)
            /\ \A r \in reports, s \in starts : \E e \in exits : s < e /\ e < r
            /\ Finished(c) => reports # {}
            /\ (Finished(c) /\ Exited(c) /\ calls[c].proc.code # 0)
                   => ScriptFailureRaised(c)

\* a script that failed: started once, exited, reported once
C13_Witness ==
    \E c \in Threads :
        /\ ScriptFailureRaised(c)
        /\ calls[c].launches = 1
        /\ calls[c].trace = <<"config", "inputs", "prepare", "launch", "exit", "raise">>

\* C14: whatever an execute call does, it has read the config first; the
\* subprocess is started only after the input checks have passed, with no
\* required input absent from the request, so that a request with a missing
\* input has no command line and starts nothing; the response is built only
\* after the subprocess has exited, with code 0.
C14_StepOrder ==
    \A c \in Threads :
        LET p == ProcOf(c)
            tr == calls[c].trace
            checks == StepsAt(c, {"inputs"})
            starts == StepsAt(c, {"launch"})
            exits == StepsAt(c, {"exit"})
            answers == StepsAt(c, {"response"})
        IN  /\ tr # <<>> => tr[1] = "config"
            /\ \A k \in checks : k > 1
            /\ \A s \in starts :
                   /\ \E k \in checks : k < s
                   /\ FirstMissing(p, calls[c].data) = 0
            /\ (p # "none" /\ FirstMissing(p, calls[c].data) # 0)
                   => /\ starts = {}
                      /\ calls[c].launches = 0
                      /\ calls[c].docker_command = <<>>
                      /\ ~Exited(c)
            /\ \A a \in answers :
                   /\ \E s \in starts, e \in exits : s < e /\ e < a
                   /\ calls[c].proc.code = 0
                   /\ calls[c].ret.returncode = 0
            /\ calls[c].response # <<>> => answers # {}

\* a call of a module with a job directory that went through every step
C14_Witness ==
    \E c \in Threads :
        /\ calls[c].pc = "done"
        /\ calls[c].response # <<>>
        /\ calls[c].trace =
               <<"config", "makedirs", "inputs", "prepare", "launch", "exit", "response">>

\* execute raised ProcessorExecuteError because a required input is absent
MissingInputRaised(c) ==
    /\ calls[c].pc = "raised"
    /\ calls[c].exc.type = "ProcessorExecuteError"
    /\ FirstMissing(ProcOf(c), calls[c].data) # 0

\* C15: when execute has raised ProcessorExecuteError for a missing required
\* input, the call has created no directory on the host.
C15_FailedValidationCreatesNothing ==
    \A c \in Threads : MissingInputRaised(c) => calls[c].created = {}

\* the base URL of the config the links of thread c's module are made from
ConfiguredBaseUrl(c) ==
    IF HasJobDir(ProcOf(c)) THEN config.download_url ELSE config.own_url

\* where the container writes the k-th output: under the mounted directory of
\* the host for an argument under /out, in its own file system otherwise
WrittenFile(c, k) ==
    LET a == CommandOutputArg(c, k)
    IN  IF StartsWith(a, ContainerOut \o <<"/">>)
        THEN [owner |-> "host",
              path |-> Components(MountSource(c)) \o Components(SubSeq(a, 3, Len(a)))]
        ELSE [owner |-> c, path |-> Components(a)]

\* path begins with the components of base
IsUnder(path, base) == Len(base) <= Len(path) /\ SubSeq(path, 1, Len(base)) = base

\* the components of path that follow base
RelativeTo(path, base) == SubSeq(path, Len(base) + 1, Len(path))

\* C16: in the response of an execute call the href of every output, relative to
\* the base URL of the config, is the path of the host file the container wrote
\* for that output, relative to download_dir of the config.
C16_LinkAddressesWrittenFile ==
    \A c \in Threads :
        calls[c].pc = "done"
        => \A k \in 1..Len(calls[c].response) :
               LET href == Components(calls[c].response[k].href)
                   base == Components(ConfiguredBaseUrl(c))
                   file == WrittenFile(c, k)
                   dir == Components(config.download_dir)
               IN  /\ file.owner = "host"
                   /\ IsUnder(href, base)
                   /\ IsUnder(file.path, dir)
                   /\ RelativeTo(href, base) = RelativeTo(file.path, dir)

\* the job id an execute call on instance i has to use: that of the latest
\* set_job_id call, 'nothing-yet' when there was none
DueJobId(i) == IF last_set[i] = "none" THEN "nothing-yet" ELSE last_set[i]

\* C17: the job id stored in an instance is always that of the latest
\* set_job_id call on it, or 'nothing-yet' when there was none, whatever execute
\* calls came in between; every output file name an execute call has made is
\* <stem>-<that job id><extension>, the file name in every output argument of
\* its command line and in every link of its response is that name, and in
\* combine_eurostat_data and process_interpolate_lau the output directory and
\* the link directory end with job_<that job id>.
C17_JobIdOfLatestSet ==
    /\ \A i \in Instances : my_job_id[i] = DueJobId(i)
    /\ \A c \in Threads :
           calls[c].inst \in Instances
           => LET p == ProcOf(c)
                  id == DueJobId(calls[c].inst)
              IN  /\ \A k \in 1..Len(calls[c].files) :
                         /\ calls[c].files[k]
                                = <<OutputPatterns(p)[k][1], "-", id, OutputPatterns(p)[k][2]>>
                         /\ OutputFileName(c, k) = calls[c].files[k]
                  /\ \A k \in 1..Len(calls[c].response) :
                         EndsWith(calls[c].response[k].href,
                                  <<"/", OutputPatterns(p)[k][1], "-", id,
                                    OutputPatterns(p)[k][2]>>)
                  /\ calls[c].output_dir # <<>>
                         => EndsWith(calls[c].output_dir, <<"/", "job_", id>>)
                  /\ (HasJobDir(p) /\ calls[c].url # <<>>)
                         => EndsWith(calls[c].url, <<"/", "job_", id>>)
                  /\ (HasJobDir(p) /\ calls[c].docker_command # <<>>)
                         => EndsWith(MountSource(c), <<"/", "job_", id>>)

\* after set_job_id('job-1'), an execute call, and set_job_id('job-2'), an
\* execute call of a module with a job directory has answered
C17_Witness ==
    \E c \in Threads :
        /\ calls[c].pc = "done"
        /\ HasJobDir(ProcOf(c))
        /\ last_set[calls[c].inst] = "job-2"
        /\ Components(<<"/", "srv", "/", "downloads", "/", "out", "/",
                        ProcessId(ProcOf(c)), "/", "job_", "job-1">>) \in fs
        /\ calls[c].response # <<>>

=============================================================================
